---- MODULE Spec2Model ----
(***************************************************************************)
(* Model of src/src/uptime_monitor.py: the UptimeMonitor engine over its   *)
(* SQLite relations monitors, heartbeats and incidents.                    *)
(*                                                                         *)
(* A nullable column / an absent dict key is the empty sequence None, a    *)
(* present value v is the one-element sequence Some(v).                    *)
(***************************************************************************)
EXTENDS Integers, Sequences, FiniteSets, TLC

\* ------------------------------------------------------------ bounds
MaxTime == 2
MaxChecks == 4
MaxConcChecks == 3
MaxDays == 2
MaxRunnerChecks == 3

SecondsPerDay == 86400
SecondsPerHour == 3600

MonitorIds == {"m1"}
Callers == {"t1", "t2"}
Latencies == {50}
Reasons == {"timeout"}
CertDays == {30}
StatusCodes == {200, 404}

\* window arguments of the metric queries
Days == {1, 2}
Hours == {24, 48}

\* the monitor added before metrics are queried
MetricInputs == { <<"ping", "h">> }

\* the monitors of a check cycle and what add_monitor is handed for them
RunnerIds == {"m1", "m2"}
RunnerInputs == { <<"tcp", "h:80">>, <<"push", "h">> }

\* the statuses an operator sets by hand
ManualStatuses == {"paused", "maintenance"}

\* (monitor_type, target) pairs handed to add_monitor
AddInputs ==
    { <<"http", "http://h">>, <<"http", "https://h">>, <<"tcp", "h:80">>,
      <<"ping", "h">>, <<"dns", "h">>, <<"cert", "https://h">>,
      <<"push", "h">> }

\* ------------------------------------------------------------ values
None == << >>
Some(v) == << v >>

\* what the network does during one probe
Net ==
    [ exc : BOOLEAN, err : Reasons, code : StatusCodes, rt : Latencies,
      cert_exc : BOOLEAN, days : CertDays, rc : {0, 1}, match : BOOLEAN ]

\* a probe's result dict; an absent key is None
Result(status, rt, reason, cert) ==
    [ status |-> status, response_time_ms |-> rt, reason |-> reason,
      cert_expiry_days |-> cert ]

NoResult == Result("none", None, None, None)

\* ------------------------------------------------------------ state
VARIABLES monitors, heartbeats, incidents, clock, calls, runner, last

vars == << monitors, heartbeats, incidents, clock, calls, runner, last >>

\* ------------------------------------------------------------ probe executors
\* target.startswith("https://"), over the targets of AddInputs
StartsWithHttps(target) == target \in {"https://h"}

check_http_CertFatal(target, net) ==
    IF net.exc \/ (StartsWithHttps(target) /\ net.cert_exc)
    THEN Result("down", None, Some(net.err), None)
    ELSE Result(IF net.code < 400 THEN "up" ELSE "down",
                Some(net.rt), None,
                IF StartsWithHttps(target) THEN Some(net.days) ELSE None)

\* check_http: a transport failure is down with the failure as reason; an
\* answer is up below 400 and down otherwise; a failed certificate check
\* only leaves cert_expiry_days None
check_http(target, net) ==
    IF net.exc
    THEN Result("down", None, Some(net.err), None)
    ELSE Result(IF net.code < 400 THEN "up" ELSE "down",
                Some(net.rt), None,
                IF StartsWithHttps(target) /\ ~net.cert_exc
                THEN Some(net.days) ELSE None)

check_tcp(net) ==
    IF net.exc
    THEN Result("down", None, Some(net.err), None)
    ELSE Result("up", Some(net.rt), None, None)

check_ping(net) ==
    IF net.exc
    THEN Result("down", None, Some(net.err), None)
    ELSE IF net.rc = 0
         THEN Result("up", Some(IF net.match THEN net.rt ELSE 0), None, None)
         ELSE Result("down", None, None, None)

check_cert(net) ==
    IF net.cert_exc
    THEN Result("error", None, Some(net.err), None)
    ELSE Result("up", None, None, Some(net.days))

\* ------------------------------------------------------------ run_check
Dispatch_FallbackPing(monitor_type) ==
    CASE monitor_type = "http" -> "check_http"
      [] monitor_type = "tcp"  -> "check_tcp"
      [] OTHER                 -> "check_ping"

\* the if/elif chain of run_check: the executor called for a monitor type
Dispatch(monitor_type) ==
    CASE monitor_type = "http" -> "check_http"
      [] monitor_type = "tcp"  -> "check_tcp"
      [] monitor_type = "ping" -> "check_ping"
      [] monitor_type = "dns"  -> "check_ping"
      [] OTHER                 -> "none"

\* the result dict the chosen executor (or the else branch) hands back
Execute(executor, target, net) ==
    CASE executor = "check_http" -> check_http(target, net)
      [] executor = "check_tcp"  -> check_tcp(net)
      [] executor = "check_ping" -> check_ping(net)
      [] executor = "check_cert" -> check_cert(net)
      [] OTHER                   -> Result("unknown", None, None, None)

NewUpSince_KeepStored(new_status, stored, now) ==
    IF new_status = "up"
    THEN (IF stored # None THEN stored ELSE Some(now))
    ELSE stored

NewUpSince_AlwaysNow(new_status, stored, now) ==
    IF new_status = "up" THEN Some(now) ELSE None

\* up_since written by the UPDATE: kept when already set, else now; NULL
\* for every status other than up
NewUpSince(new_status, stored, now) ==
    IF new_status = "up"
    THEN (IF stored # None THEN stored ELSE Some(now))
    ELSE None

UpdateMonitor_NoWhere(mons, mid, result, up_since, now) ==
    [ m \in DOMAIN mons |->
        [ mons[m] EXCEPT !.status = result.status,
                         !.last_check = Some(now),
                         !.response_time_ms = result.response_time_ms,
                         !.cert_expiry_days = result.cert_expiry_days,
                         !.up_since = up_since ] ]

\* UPDATE monitors SET status, last_check, response_time_ms,
\* cert_expiry_days, up_since WHERE id = mid
UpdateMonitor(mons, mid, result, up_since, now) ==
    [ mons EXCEPT ![mid] =
        [ @ EXCEPT !.status = result.status,
                   !.last_check = Some(now),
                   !.response_time_ms = result.response_time_ms,
                   !.cert_expiry_days = result.cert_expiry_days,
                   !.up_since = up_since ] ]

InsertHeartbeat_OnlyMeasured(hbs, mid, result, now) ==
    IF result.response_time_ms = None
    THEN hbs
    ELSE Append(hbs, [ monitor_id |-> mid, timestamp |-> now,
                       status |-> result.status,
                       response_time_ms |-> result.response_time_ms ])

\* INSERT INTO heartbeats
InsertHeartbeat(hbs, mid, result, now) ==
    Append(hbs, [ monitor_id |-> mid, timestamp |-> now,
                  status |-> result.status,
                  response_time_ms |-> result.response_time_ms ])

Cause_AlwaysDefault(result) == "Monitor down"

\* result.get("reason", "Monitor down")
Cause(result) ==
    IF result.reason = None THEN "Monitor down" ELSE result.reason[1]

InsertIncident_WheneverDown(incs, mid, old_status, result, now) ==
    IF result.status = "down"
    THEN Append(incs, [ id |-> Len(incs) + 1, monitor_id |-> mid,
                        started_at |-> now, resolved_at |-> None,
                        duration_s |-> None, cause |-> Cause(result),
                        notified |-> FALSE ])
    ELSE incs

\* the incident is inserted only when the status read at the start of the
\* check was up and the outcome is down; no branch resolves an incident
InsertIncident(incs, mid, old_status, result, now) ==
    IF old_status = "up" /\ result.status = "down"
    THEN Append(incs, [ id |-> Len(incs) + 1, monitor_id |-> mid,
                        started_at |-> now, resolved_at |-> None,
                        duration_s |-> None, cause |-> Cause(result),
                        notified |-> FALSE ])
    ELSE incs

Idle == [ pc |-> "idle", mid |-> "m1", type |-> "none", old_status |-> "none",
          result |-> NoResult, now |-> 0, up_since |-> None ]

\* the operation that ran last: what it was called on, the executor it
\* called, the status it read, the result it got and the value it returned
Last(op, mid, executor, old_status, result, ret) ==
    [ op |-> op, mid |-> mid, executor |-> executor,
      old_status |-> old_status, result |-> result, ret |-> ret ]

\* run_all_checks between two calls: no cycle in progress
RunnerIdle ==
    [ pc |-> "idle", queue |-> << >>, results |-> << >>, probed |-> << >>,
      type |-> "none", old_status |-> "none",
      before |-> [ monitors |-> << >>, heartbeats |-> << >>,
                   incidents |-> << >> ] ]

\* ------------------------------------------------------------ Init
Init ==
    /\ monitors = << >>
    /\ heartbeats = << >>
    /\ incidents = << >>
    /\ clock = 0
    /\ calls = [ t \in Callers |-> Idle ]
    /\ runner = RunnerIdle
    /\ last = Last("init", "m1", "none", "none", NoResult, FALSE)

\* ------------------------------------------------------------ actions
\* wall-clock time passes
Tick ==
    /\ clock < MaxTime
    /\ clock' = clock + 1
    /\ last' = Last("tick", "m1", "none", "none", NoResult, FALSE)
    /\ UNCHANGED << monitors, heartbeats, incidents, calls, runner >>

\* add_monitor: a fresh id; status, up_since and the other unlisted columns
\* take the schema defaults
AddMonitor(mid, input) ==
    /\ mid \notin DOMAIN monitors
    /\ monitors' = monitors @@
         (mid :> [ type |-> input[1], target |-> input[2],
                   status |-> "unknown", up_since |-> None,
                   last_check |-> None, response_time_ms |-> None,
                   cert_expiry_days |-> None ])
    /\ last' = Last("add_monitor", mid, "none", "none", NoResult, TRUE)
    /\ UNCHANGED << heartbeats, incidents, clock, calls, runner >>

\* run_check, run from its first line to its return with no other caller
\* in between
RunCheck(mid, net) ==
    /\ Len(heartbeats) < MaxChecks
    /\ IF mid \notin DOMAIN monitors
       THEN /\ last' = Last("run_check", mid, "none", "none", NoResult,
                            FALSE)
            /\ UNCHANGED << monitors, heartbeats, incidents >>
       ELSE LET row == monitors[mid]
                executor == Dispatch(row.type)
                result == Execute(executor, row.target, net)
                up_since == NewUpSince(result.status, row.up_since, clock)
            IN  /\ monitors' = UpdateMonitor(monitors, mid, result,
                                             up_since, clock)
                /\ heartbeats' = InsertHeartbeat(heartbeats, mid, result,
                                                 clock)
                /\ incidents' = InsertIncident(incidents, mid, row.status,
                                               result, clock)
                /\ last' = Last("run_check", mid, executor, row.status,
                                result, result.status = "up")
    /\ UNCHANGED << clock, calls, runner >>

\* resolve_incident: overwrites resolved_at and duration_s of the row with
\* that id, whatever they held
ResolveIncident(id) ==
    /\ IF id \in DOMAIN incidents
       THEN /\ incidents' =
                 [ incidents EXCEPT ![id] =
                     [ @ EXCEPT !.resolved_at = Some(clock),
                                !.duration_s =
                           Some(clock - incidents[id].started_at) ] ]
            /\ last' = Last("resolve_incident", incidents[id].monitor_id,
                            "none", "none", NoResult, TRUE)
       ELSE /\ last' = Last("resolve_incident", "m1", "none", "none",
                            NoResult, FALSE)
            /\ UNCHANGED incidents
    /\ UNCHANGED << monitors, heartbeats, clock, calls, runner >>

Next ==
    \/ Tick
    \/ \E mid \in MonitorIds, input \in AddInputs : AddMonitor(mid, input)
    \/ \E mid \in MonitorIds, net \in Net : RunCheck(mid, net)
    \/ \E id \in 1..MaxChecks : ResolveIncident(id)

Spec == Init /\ [][Next]_vars

\* ------------------------------------------------------------ run_check, stepwise
\* run_check opens its own connection and takes no lock: between its SELECT
\* of the status, the probe, the SELECT of up_since and the write
\* transaction, another caller's statements can run.  calls[t] holds the
\* local variables of caller t's invocation; after the return (pc = "done")
\* it keeps the status the invocation read and the result it got.
InProgress == { t \in Callers : calls[t].pc \in {"read", "probed", "ready"} }

\* SELECT type, status FROM monitors WHERE id = ?  (and the early return)
RcRead(t, mid) ==
    /\ calls[t].pc \in {"idle", "done"}
    /\ Len(heartbeats) + Cardinality(InProgress) < MaxConcChecks
    /\ IF mid \notin DOMAIN monitors
       THEN /\ last' = Last("run_check", mid, "none", "none", NoResult,
                            FALSE)
            /\ UNCHANGED calls
       ELSE /\ calls' = [ calls EXCEPT ![t] =
                 [ Idle EXCEPT !.pc = "read", !.mid = mid,
                               !.type = monitors[mid].type,
                               !.old_status = monitors[mid].status ] ]
            /\ UNCHANGED last
    /\ UNCHANGED << monitors, heartbeats, incidents, clock, runner >>

\* the dispatch and the probe
RcProbe(t, net) ==
    /\ calls[t].pc = "read"
    /\ calls' = [ calls EXCEPT ![t] =
         [ @ EXCEPT !.pc = "probed",
                    !.result = Execute(Dispatch(calls[t].type),
                                       monitors[calls[t].mid].target,
                                       net) ] ]
    /\ UNCHANGED << monitors, heartbeats, incidents, clock, runner, last >>

\* now = datetime.now() and the SELECT of up_since
RcUpSince(t) ==
    /\ calls[t].pc = "probed"
    /\ calls' = [ calls EXCEPT ![t] =
         [ @ EXCEPT !.pc = "ready", !.now = clock,
                    !.up_since = NewUpSince(calls[t].result.status,
                                            monitors[calls[t].mid].up_since,
                                            clock) ] ]
    /\ UNCHANGED << monitors, heartbeats, incidents, clock, runner, last >>

\* the write transaction: UPDATE, INSERT heartbeat, INSERT incident, commit
RcWrite(t) ==
    /\ calls[t].pc = "ready"
    /\ LET c == calls[t]
       IN  /\ monitors' = UpdateMonitor(monitors, c.mid, c.result,
                                        c.up_since, c.now)
           /\ heartbeats' = InsertHeartbeat(heartbeats, c.mid, c.result,
                                            c.now)
           /\ incidents' = InsertIncident(incidents, c.mid, c.old_status,
                                          c.result, c.now)
           /\ last' = Last("run_check", c.mid, Dispatch(c.type),
                           c.old_status, c.result, c.result.status = "up")
    /\ calls' = [ calls EXCEPT ![t] =
         [ Idle EXCEPT !.pc = "done", !.mid = calls[t].mid,
                       !.old_status = calls[t].old_status,
                       !.result = calls[t].result ] ]
    /\ UNCHANGED << clock, runner >>

NextConc ==
    \/ Tick
    \/ \E mid \in MonitorIds, input \in AddInputs : AddMonitor(mid, input)
    \/ \E t \in Callers, mid \in MonitorIds : RcRead(t, mid)
    \/ \E t \in Callers, net \in Net : RcProbe(t, net)
    \/ \E t \in Callers : RcUpSince(t)
    \/ \E t \in Callers : RcWrite(t)
    \/ \E id \in 1..MaxChecks : ResolveIncident(id)

SpecConc == Init /\ [][NextConc]_vars

\* ------------------------------------------------------------ metrics
\* a day passes
TickDay ==
    /\ clock < MaxDays * SecondsPerDay
    /\ clock' = clock + SecondsPerDay
    /\ last' = Last("tick", "m1", "none", "none", NoResult, FALSE)
    /\ UNCHANGED << monitors, heartbeats, incidents, calls, runner >>

SumDuration_Elapsed(incs, mid, cutoff, n) ==
    LET Dur(i) == IF incs[i].duration_s # None THEN incs[i].duration_s[1]
                  ELSE clock - incs[i].started_at
        RECURSIVE Go(_)
        Go(k) == IF k = 0 THEN 0
                 ELSE Go(k - 1) +
                      (IF incs[k].monitor_id = mid /\ incs[k].started_at > cutoff
                       THEN Dur(k) ELSE 0)
    IN  Some(Go(n))

\* SELECT SUM(duration_s) FROM incidents WHERE monitor_id = ? AND
\* started_at > ?, over the first n rows: NULL durations are skipped and
\* the sum of no value is NULL
RECURSIVE SumDuration(_, _, _, _)
SumDuration(incs, mid, cutoff, n) ==
    IF n = 0 THEN None
    ELSE LET rest == SumDuration(incs, mid, cutoff, n - 1)
             row == incs[n]
         IN  IF /\ row.monitor_id = mid
                /\ row.started_at > cutoff
                /\ row.duration_s # None
             THEN Some((IF rest = None THEN 0 ELSE rest[1])
                       + row.duration_s[1])
             ELSE rest

\* get_uptime_percent: the value num / den of
\* max(0, (1 - downtime / total_seconds) * 100)
get_uptime_percent(mid, days, now) ==
    LET cutoff == now - days * SecondsPerDay
        sum == SumDuration(incidents, mid, cutoff, Len(incidents))
        downtime == IF sum = None \/ sum = Some(0) THEN 0 ELSE sum[1]
        total_seconds == days * SecondsPerDay
    IN  IF (total_seconds - downtime) * 100 < 0
        THEN [ num |-> 0, den |-> 1 ]
        ELSE [ num |-> (total_seconds - downtime) * 100,
               den |-> total_seconds ]

GetUptimePercent(mid, days) ==
    /\ last' = Last("get_uptime_percent", mid, "none", "none", NoResult,
                    [ arg |-> days,
                      value |-> get_uptime_percent(mid, days, clock) ])
    /\ UNCHANGED << monitors, heartbeats, incidents, clock, calls, runner >>

AvgResponseTime_NoWindow(hbs, mid, cutoff, n) ==
    LET RECURSIVE Go(_)
        Go(k) == IF k = 0 THEN [ sum |-> 0, count |-> 0 ]
                 ELSE LET rest == Go(k - 1)
                      IN  IF /\ hbs[k].monitor_id = mid
                             /\ hbs[k].response_time_ms # None
                          THEN [ sum |-> rest.sum + hbs[k].response_time_ms[1],
                                 count |-> rest.count + 1 ]
                          ELSE rest
    IN  Go(n)

\* SELECT AVG(response_time_ms) FROM heartbeats WHERE monitor_id = ? AND
\* timestamp > ? AND response_time_ms IS NOT NULL, over the first n rows:
\* the sum and the count of the values averaged
RECURSIVE AvgResponseTime(_, _, _, _)
AvgResponseTime(hbs, mid, cutoff, n) ==
    IF n = 0 THEN [ sum |-> 0, count |-> 0 ]
    ELSE LET rest == AvgResponseTime(hbs, mid, cutoff, n - 1)
             row == hbs[n]
         IN  IF /\ row.monitor_id = mid
                /\ row.timestamp > cutoff
                /\ row.response_time_ms # None
             THEN [ sum |-> rest.sum + row.response_time_ms[1],
                    count |-> rest.count + 1 ]
             ELSE rest

\* get_response_time_avg: the value num / den of AVG(...) or 0
get_response_time_avg(mid, hours, now) ==
    LET cutoff == now - hours * SecondsPerHour
        avg == AvgResponseTime(heartbeats, mid, cutoff, Len(heartbeats))
    IN  IF avg.count = 0 \/ avg.sum = 0
        THEN [ num |-> 0, den |-> 1 ]
        ELSE [ num |-> avg.sum, den |-> avg.count ]

GetResponseTimeAvg(mid, hours) ==
    /\ last' = Last("get_response_time_avg", mid, "none", "none", NoResult,
                    [ arg |-> hours,
                      value |-> get_response_time_avg(mid, hours, clock) ])
    /\ UNCHANGED << monitors, heartbeats, incidents, clock, calls, runner >>

NextMetrics ==
    \/ TickDay
    \/ \E mid \in MonitorIds, input \in MetricInputs : AddMonitor(mid, input)
    \/ \E mid \in MonitorIds, net \in Net : RunCheck(mid, net)
    \/ \E id \in 1..MaxChecks : ResolveIncident(id)
    \/ \E mid \in MonitorIds, days \in Days : GetUptimePercent(mid, days)
    \/ \E mid \in MonitorIds, hours \in Hours : GetResponseTimeAvg(mid, hours)

SpecMetrics == Init /\ [][NextMetrics]_vars

\* ------------------------------------------------------------ run_all_checks
RunnableIds_All(mons) == DOMAIN mons

\* SELECT id FROM monitors WHERE status != 'paused'
RunnableIds(mons) == { m \in DOMAIN mons : mons[m].status # "paused" }

\* the orders in which the SELECT can hand back a set of rows
Orders(S) ==
    { q \in [ 1..Cardinality(S) -> S ] :
        \A i, j \in 1..Cardinality(S) : i # j => q[i] # q[j] }

\* an operator pauses a monitor or puts it into maintenance, between cycles
SetStatus(mid, status) ==
    /\ runner.pc = "idle"
    /\ mid \in DOMAIN monitors
    /\ monitors[mid].status # status
    /\ monitors' = [ monitors EXCEPT ![mid].status = status ]
    /\ last' = Last("set_status", mid, "none", "none", NoResult, TRUE)
    /\ UNCHANGED << heartbeats, incidents, clock, calls, runner >>

\* add_monitor called between two cycles
AddMonitorBetweenCycles(mid, input) ==
    /\ runner.pc = "idle"
    /\ AddMonitor(mid, input)

\* run_all_checks up to the loop: the ids of the monitors that are not
\* paused; before keeps the tables as they were when the cycle started
RaStart ==
    /\ runner.pc = "idle"
    /\ Len(heartbeats) + Cardinality(RunnableIds(monitors))
          <= MaxRunnerChecks
    /\ \E q \in Orders(RunnableIds(monitors)) :
          runner' = [ RunnerIdle EXCEPT
                        !.pc = "loop", !.queue = q,
                        !.before = [ monitors |-> monitors,
                                     heartbeats |-> heartbeats,
                                     incidents |-> incidents ] ]
    /\ UNCHANGED << monitors, heartbeats, incidents, clock, calls, last >>

\* the loop calls run_check for the next id: the row is read and the probe
\* of that monitor starts
RaProbeStart(mid) ==
    /\ runner.pc = "loop"
    /\ runner.queue # << >>
    /\ mid = Head(runner.queue)
    /\ runner' = [ runner EXCEPT !.pc = "probing",
                                 !.type = monitors[mid].type,
                                 !.old_status = monitors[mid].status,
                                 !.probed = Append(@, mid) ]
    /\ UNCHANGED << monitors, heartbeats, incidents, clock, calls, last >>

\* the probe answers or times out; run_check writes and returns, and the
\* loop stores the returned value under the monitor's id
RaProbeEnd(net) ==
    /\ runner.pc = "probing"
    /\ LET mid == Head(runner.queue)
           executor == Dispatch(runner.type)
           result == Execute(executor, monitors[mid].target, net)
           up_since == NewUpSince(result.status, monitors[mid].up_since,
                                  clock)
       IN  /\ monitors' = UpdateMonitor(monitors, mid, result, up_since,
                                        clock)
           /\ heartbeats' = InsertHeartbeat(heartbeats, mid, result, clock)
           /\ incidents' = InsertIncident(incidents, mid, runner.old_status,
                                          result, clock)
           /\ last' = Last("run_check", mid, executor, runner.old_status,
                           result, result.status = "up")
           /\ runner' = [ runner EXCEPT
                            !.pc = "loop", !.queue = Tail(@),
                            !.type = "none", !.old_status = "none",
                            !.results = @ @@ (mid :> (result.status = "up")) ]
    /\ UNCHANGED << clock, calls >>

\* the loop is over: run_all_checks returns the result map
RaReturn ==
    /\ runner.pc = "loop"
    /\ runner.queue = << >>
    /\ runner' = RunnerIdle
    /\ last' = Last("run_all_checks", "m1", "none", "none", NoResult,
                    runner.results)
    /\ UNCHANGED << monitors, heartbeats, incidents, clock, calls >>

NextRunner ==
    \/ Tick
    \/ \E mid \in RunnerIds, input \in RunnerInputs :
          AddMonitorBetweenCycles(mid, input)
    \/ \E mid \in RunnerIds, status \in ManualStatuses : SetStatus(mid, status)
    \/ RaStart
    \/ \E mid \in RunnerIds : RaProbeStart(mid)
    \/ \E net \in Net : RaProbeEnd(net)
    \/ RaReturn

SpecRunner == Init /\ [][NextRunner]_vars

\* ------------------------------------------------------------ two monitors
\* run_check of monitor A and run_check of monitor B, statement by statement
\* and interleaved in every order: each caller checks a monitor of its own
PairIds == {"m1", "m2"}
PairInputs == { <<"http", "http://h">>, <<"push", "h">> }
Owner == [ t \in Callers |-> IF t = "t1" THEN "m1" ELSE "m2" ]

NextPair ==
    \/ Tick
    \/ \E mid \in PairIds, input \in PairInputs : AddMonitor(mid, input)
    \/ \E t \in Callers : RcRead(t, Owner[t])
    \/ \E t \in Callers, net \in Net : RcProbe(t, net)
    \/ \E t \in Callers : RcUpSince(t)
    \/ \E t \in Callers : RcWrite(t)

SpecPair == Init /\ [][NextPair]_vars

\* ------------------------------------------------------------ properties
IncidentsOf(m) == { i \in DOMAIN incidents : incidents[i].monitor_id = m }

OpenIncidentsOf(m) ==
    { i \in IncidentsOf(m) : incidents[i].resolved_at = None }

\* the statuses of m's heartbeats, in insertion order
RECURSIVE StatusesOf(_, _)
StatusesOf(m, n) ==
    IF n = 0 THEN << >>
    ELSE IF heartbeats[n].monitor_id = m
         THEN Append(StatusesOf(m, n - 1), heartbeats[n].status)
         ELSE StatusesOf(m, n - 1)

\* the number of up -> down steps in a sequence of statuses
DownTransitions(st) ==
    Cardinality({ i \in 1..(Len(st) - 1) :
                    st[i] = "up" /\ st[i + 1] = "down" })

\* the last operation was a run_check on a stored monitor
Checked == last.op = "run_check" /\ last.old_status # "none"

\* C1: every monitor has at most one incident whose resolved_at is null.
C1_AtMostOneOpenIncident ==
    \A m \in MonitorIds : Cardinality(OpenIncidentsOf(m)) <= 1

\* C2: a run_check with outcome up closes, in the same check, every incident
\* of the monitor that was open: resolved_at is the check time and the
\* duration is resolved_at - started_at, which is not negative.
C2_UpClosesOpenIncident ==
    [][ (last'.op = "run_check" /\ last'.result.status = "up")
        => \A i \in OpenIncidentsOf(last'.mid) :
              /\ incidents'[i].resolved_at = Some(clock')
              /\ incidents'[i].duration_s =
                    Some(clock' - incidents[i].started_at)
              /\ clock' - incidents[i].started_at >= 0 ]_vars

\* C3: after a run_check that moved a monitor into down from a status other
\* than down, the monitor has an open incident started at the check time.
C3_IntoDownCreatesIncident ==
    (Checked /\ last.result.status = "down" /\ last.old_status # "down")
    => \E i \in OpenIncidentsOf(last.mid) : incidents[i].started_at = clock

\* C4 as stated: a run_check that read status up and got outcome down
\* inserts exactly one incident, started at the check time, unresolved, whose
\* cause is the outcome's detail.
C4_CauseIsDetail ==
    [][ (last'.op = "run_check" /\ last'.old_status = "up"
         /\ last'.result.status = "down")
        => /\ Len(incidents') = Len(incidents) + 1
           /\ SubSeq(incidents', 1, Len(incidents)) = incidents
           /\ LET inc == incidents'[Len(incidents')]
              IN  /\ inc.monitor_id = last'.mid
                  /\ inc.started_at = clock'
                  /\ inc.resolved_at = None
                  /\ Some(inc.cause) = last'.result.reason ]_vars

\* C4 as amended: a run_check that read status up and got outcome down
\* inserts exactly one incident, started at the check time, unresolved, whose
\* cause is the outcome's detail when the outcome carries one and the text
\* "Monitor down" when it carries none.
C4_FreshFailureOpensIncident ==
    [][ (last'.op = "run_check" /\ last'.old_status = "up"
         /\ last'.result.status = "down")
        => /\ Len(incidents') = Len(incidents) + 1
           /\ SubSeq(incidents', 1, Len(incidents)) = incidents
           /\ LET inc == incidents'[Len(incidents')]
              IN  /\ inc.monitor_id = last'.mid
                  /\ inc.started_at = clock'
                  /\ inc.resolved_at = None
                  /\ inc.cause = IF last'.result.reason = None
                                 THEN "Monitor down"
                                 ELSE last'.result.reason[1] ]_vars

\* a fresh failure without a detail has been recorded
C4_Witness ==
    /\ Checked /\ last.old_status = "up" /\ last.result.status = "down"
    /\ last.result.reason = None
    /\ Len(incidents) >= 1
    /\ incidents[Len(incidents)].cause = "Monitor down"

\* C5: a run_check that read status down and got outcome down inserts no
\* incident, and the incidents of a monitor are as many as the up -> down
\* steps in its heartbeats: an outage of any length has exactly one.
C5_OneIncidentPerOutage ==
    /\ [][ (last'.op = "run_check" /\ last'.old_status = "down"
            /\ last'.result.status = "down")
           => incidents' = incidents ]_vars
    /\ [](\A m \in MonitorIds :
            Cardinality(IncidentsOf(m)) =
               DownTransitions(StatusesOf(m, Len(heartbeats))))

\* an outage that has lasted three checks and has one incident
C5_Witness ==
    /\ Checked /\ last.old_status = "down" /\ last.result.status = "down"
    /\ LET st == StatusesOf(last.mid, Len(heartbeats))
       IN  /\ Len(st) = 4
           /\ st[1] = "up" /\ st[2] = "down" /\ st[3] = "down"
    /\ Cardinality(IncidentsOf(last.mid)) = 1

\* C6: two run_check invocations for the same monitor never both read
\* status up, both get outcome down and each insert an incident.
C6_NoDoubleOpen ==
    ~ \E t1, t2 \in Callers :
        /\ t1 # t2
        /\ calls[t1].pc = "done" /\ calls[t2].pc = "done"
        /\ calls[t1].mid = calls[t2].mid
        /\ calls[t1].old_status = "up" /\ calls[t2].old_status = "up"
        /\ calls[t1].result.status = "down"
        /\ calls[t2].result.status = "down"
        /\ Cardinality(IncidentsOf(calls[t1].mid)) >= 2

\* C7: a monitor's up_since is non-null if and only if its status is up.
C7_UpSinceIffUp ==
    \A m \in DOMAIN monitors :
        (monitors[m].up_since # None) <=> (monitors[m].status = "up")

\* a monitor that was up since an earlier check went down and lost up_since
C7_Witness ==
    /\ Checked /\ last.old_status = "up" /\ last.result.status = "down"
    /\ monitors[last.mid].up_since = None
    /\ \E n \in DOMAIN heartbeats :
          heartbeats[n].status = "up" /\ heartbeats[n].timestamp < clock

DeclaredTypes == {"http", "tcp", "ping", "dns", "cert"}

\* C8: run_check on a monitor whose type is none of http, tcp, ping, dns,
\* cert calls no executor, gets outcome unknown, sets the status to unknown
\* and leaves the incidents as they were.
C8_UnknownTypeIsUnknown ==
    [][ (last'.op = "run_check" /\ last'.mid \in DOMAIN monitors
         /\ monitors[last'.mid].type \notin DeclaredTypes)
        => /\ last'.executor = "none"
           /\ last'.result.status = "unknown"
           /\ monitors'[last'.mid].status = "unknown"
           /\ monitors'[last'.mid].up_since = None
           /\ incidents' = incidents ]_vars

\* a push monitor has been checked twice
C8_Witness ==
    /\ Checked /\ monitors[last.mid].type = "push"
    /\ last.old_status = "unknown" /\ last.executor = "none"
    /\ monitors[last.mid].status = "unknown"
    /\ Len(heartbeats) >= 2

\* the executor the claim assigns to each declared type
OwnExecutor(monitor_type) ==
    CASE monitor_type = "http" -> "check_http"
      [] monitor_type = "tcp"  -> "check_tcp"
      [] monitor_type = "ping" -> "check_ping"
      [] monitor_type = "dns"  -> "check_dns"
      [] monitor_type = "cert" -> "check_cert"

\* C9: run_check on a monitor of a declared type calls the executor of
\* exactly that type.
C9_OwnExecutor ==
    (Checked /\ monitors[last.mid].type \in DeclaredTypes)
    => last.executor = OwnExecutor(monitors[last.mid].type)

\* C10: a run_check on a stored monitor appends exactly one heartbeat, for
\* that monitor, with the outcome's status and response time; every step
\* keeps the heartbeats recorded before it as they were.
C10_OneHeartbeatPerCheck ==
    [][ /\ Len(heartbeats') >= Len(heartbeats)
        /\ SubSeq(heartbeats', 1, Len(heartbeats)) = heartbeats
        /\ IF last'.op = "run_check" /\ last'.mid \in DOMAIN monitors
           THEN /\ Len(heartbeats') = Len(heartbeats) + 1
                /\ LET h == heartbeats'[Len(heartbeats')]
                   IN  /\ h.monitor_id = last'.mid
                       /\ h.status = last'.result.status
                       /\ h.response_time_ms = last'.result.response_time_ms
           ELSE heartbeats' = heartbeats ]_vars

\* heartbeats of an up -> up, a down -> down and an unknown outcome
C10_Witness ==
    /\ Checked /\ last.old_status = last.result.status
    /\ Len(heartbeats) >= 2
    /\ heartbeats[Len(heartbeats)].status = last.result.status
    /\ heartbeats[Len(heartbeats) - 1].status = last.result.status
    /\ heartbeats[Len(heartbeats)].response_time_ms = None

\* what run_check returns after an outcome of down or of unknown
DownOrUnknownReturns == { st = "up" : st \in {"down", "unknown"} }

\* C16: run_check on an id that is not stored changes no monitor, heartbeat
\* or incident and returns a value that no down or unknown outcome returns.
C16_NotFoundIsExplicit ==
    [][ (last'.op = "run_check" /\ last'.old_status = "none")
        => /\ UNCHANGED << monitors, heartbeats, incidents >>
           /\ last'.ret \notin DownOrUnknownReturns ]_vars

\* the probes in which the GET answers below 400 and reading the
\* certificate raises
CertFailureNets ==
    [ exc : {FALSE}, err : Reasons, code : { c \in StatusCodes : c < 400 },
      rt : Latencies, cert_exc : {TRUE}, days : CertDays, rc : {0, 1},
      match : BOOLEAN ]

\* C17: a check of an https monitor whose GET answers with a code below 400
\* and whose certificate check fails has outcome up without a certificate
\* expiry and without an error, sets the status to up, returns normally and
\* inserts no incident.
C17_CertFailureKeepsUp ==
    [][ \A mid \in MonitorIds :
          ( /\ last'.op = "run_check"
            /\ mid \in DOMAIN monitors
            /\ monitors[mid].type = "http"
            /\ StartsWithHttps(monitors[mid].target)
            /\ \E net \in CertFailureNets : RunCheck(mid, net) )
          => /\ last'.result.status = "up"
             /\ last'.result.cert_expiry_days = None
             /\ last'.result.reason = None
             /\ last'.ret = TRUE
             /\ monitors'[mid].status = "up"
             /\ monitors'[mid].cert_expiry_days = None
             /\ incidents' = incidents ]_vars

\* an https monitor checked up twice in a row holds no certificate expiry
C17_Witness ==
    /\ Checked /\ monitors[last.mid].type = "http"
    /\ StartsWithHttps(monitors[last.mid].target)
    /\ last.old_status = "up" /\ last.result.status = "up"
    /\ monitors[last.mid].status = "up"
    /\ monitors[last.mid].cert_expiry_days = None
    /\ Len(heartbeats) >= 2

\* C18: a run_check with outcome up leaves up_since as it was when the
\* status read was up and sets it to the check time otherwise; a run_check
\* with any other outcome clears it.
C18_UpSinceKept ==
    [][ (last'.op = "run_check" /\ last'.old_status # "none")
        => LET m == last'.mid
           IN  /\ (last'.result.status = "up" /\ last'.old_status = "up")
                  => /\ monitors'[m].up_since = monitors[m].up_since
                     /\ monitors[m].up_since # None
               /\ (last'.result.status = "up" /\ last'.old_status # "up")
                  => monitors'[m].up_since = Some(clock')
               /\ (last'.result.status # "up")
                  => monitors'[m].up_since = None ]_vars

\* an up -> up check made later than the check that set up_since
C18_Witness ==
    /\ Checked /\ last.old_status = "up" /\ last.result.status = "up"
    /\ monitors[last.mid].up_since # None
    /\ monitors[last.mid].up_since[1] < clock
    /\ monitors[last.mid].last_check = Some(clock)

\* C20: an incident that has a resolved_at keeps its resolved_at and its
\* duration in every later step.
C20_ResolutionIsFinal ==
    [][ \A i \in DOMAIN incidents :
          incidents[i].resolved_at # None
          => /\ incidents'[i].resolved_at = incidents[i].resolved_at
             /\ incidents'[i].duration_s = incidents[i].duration_s ]_vars

Max0(x) == IF x < 0 THEN 0 ELSE x

\* the incidents of m started within the last days days
IncidentsInWindow(m, days) ==
    { i \in IncidentsOf(m) :
        incidents[i].started_at > clock - days * SecondsPerDay }

\* the sum of resolved_at - started_at over a set of resolved incidents
RECURSIVE ResolvedDowntime(_)
ResolvedDowntime(S) ==
    IF S = {} THEN 0
    ELSE LET i == CHOOSE j \in S : TRUE
         IN  (incidents[i].resolved_at[1] - incidents[i].started_at)
             + ResolvedDowntime(S \ {i})

\* C14: get_uptime_percent(m, D) is max(0, (1 - S / (D * 86400)) * 100)
\* with S the summed durations of the resolved incidents of m started
\* within the last D days; open incidents add nothing, and with no incident
\* in the window the value is exactly 100.
C14_UptimeFormula ==
    last.op = "get_uptime_percent"
    => LET m == last.mid
           D == last.ret.arg
           v == last.ret.value
           total == D * SecondsPerDay
           W == IncidentsInWindow(m, D)
           S == ResolvedDowntime({ i \in W : incidents[i].resolved_at # None })
       IN  /\ IF Max0((total - S) * 100) = 0
              THEN v.num = 0 /\ v.den > 0
              ELSE v.num = (total - S) * 100 /\ v.den = total
           /\ (W = {}) => (v.num = 100 * v.den)

\* a query whose window holds a resolved incident of a day and an open one,
\* and leaves out an older incident
C14_Witness ==
    /\ last.op = "get_uptime_percent"
    /\ LET W == IncidentsInWindow(last.mid, last.ret.arg)
       IN  /\ \E i \in W : /\ incidents[i].resolved_at # None
                           /\ incidents[i].duration_s[1] > 0
           /\ \E i \in W : incidents[i].resolved_at = None
           /\ last.ret.value.num > 0
           /\ last.ret.value.num < 100 * last.ret.value.den

\* the heartbeats of m within the last hours hours that carry a response time
MeasuredInWindow(m, hours) ==
    { n \in DOMAIN heartbeats :
        /\ heartbeats[n].monitor_id = m
        /\ heartbeats[n].timestamp > clock - hours * SecondsPerHour
        /\ heartbeats[n].response_time_ms # None }

RECURSIVE SumResponseTime(_)
SumResponseTime(S) ==
    IF S = {} THEN 0
    ELSE LET n == CHOOSE j \in S : TRUE
         IN  heartbeats[n].response_time_ms[1] + SumResponseTime(S \ {n})

\* C15: get_response_time_avg(m, H) is the mean of the non-null response
\* times of m's heartbeats of the last H hours, and 0 when there is none.
C15_ResponseTimeMean ==
    last.op = "get_response_time_avg"
    => LET W == MeasuredInWindow(last.mid, last.ret.arg)
           v == last.ret.value
       IN  /\ v.den > 0
           /\ IF W = {} THEN v.num = 0
              ELSE v.num * Cardinality(W) = SumResponseTime(W) * v.den

\* a query whose window holds two different response times and a heartbeat
\* without one, and leaves out an older measured heartbeat
C15_Witness ==
    /\ last.op = "get_response_time_avg"
    /\ LET W == MeasuredInWindow(last.mid, last.ret.arg)
       IN  /\ \E a, b \in W : heartbeats[a].response_time_ms
                                # heartbeats[b].response_time_ms
           /\ \E n \in DOMAIN heartbeats :
                 /\ heartbeats[n].response_time_ms = None
                 /\ heartbeats[n].timestamp
                      > clock - last.ret.arg * SecondsPerHour
           /\ \E n \in DOMAIN heartbeats :
                 /\ heartbeats[n].response_time_ms # None
                 /\ n \notin W
           /\ last.ret.value.num = 25 * last.ret.value.den

\* the heartbeats of m among hbs, in order, and the incident rows of m
HeartbeatsOfIn(hbs, m) == SelectSeq(hbs, LAMBDA h : h.monitor_id = m)

IncidentRowsOfIn(incs, m) ==
    { incs[i] : i \in { j \in DOMAIN incs : incs[j].monitor_id = m } }

\* the step in which run_all_checks returns
CycleReturns == runner.pc = "loop" /\ runner'.pc = "idle"

TimesProbed(m) ==
    Cardinality({ k \in DOMAIN runner.probed : runner.probed[k] = m })

\* the cycle that is returning did not probe m, holds no result for m and
\* left m's row, heartbeats and incidents as they were when it started
CycleLeftAlone(m) ==
    /\ TimesProbed(m) = 0
    /\ m \notin DOMAIN runner.results
    /\ monitors[m] = runner.before.monitors[m]
    /\ HeartbeatsOfIn(heartbeats, m)
         = HeartbeatsOfIn(runner.before.heartbeats, m)
    /\ IncidentRowsOfIn(incidents, m)
         = IncidentRowsOfIn(runner.before.incidents, m)

\* C11: a monitor whose status is maintenance when a cycle starts is not
\* probed by the cycle and its status, up_since, heartbeats and incidents
\* are the same when the cycle returns.
C11_MaintenanceSkipped ==
    [][ CycleReturns
        => \A m \in DOMAIN runner.before.monitors :
              runner.before.monitors[m].status = "maintenance"
              => CycleLeftAlone(m) ]_vars

\* C12: a cycle leaves alone every monitor that is paused when it starts,
\* and runs one check, with one heartbeat and one entry of the returned
\* map, for every other monitor.
C12_ExactlyTheUnpaused ==
    [][ CycleReturns
        => /\ DOMAIN last'.ret =
                { m \in DOMAIN runner.before.monitors :
                    runner.before.monitors[m].status # "paused" }
           /\ \A m \in DOMAIN runner.before.monitors :
                IF runner.before.monitors[m].status = "paused"
                THEN CycleLeftAlone(m)
                ELSE /\ TimesProbed(m) = 1
                     /\ m \in DOMAIN last'.ret
                     /\ last'.ret[m] = (monitors[m].status = "up")
                     /\ Len(HeartbeatsOfIn(heartbeats, m)) =
                        Len(HeartbeatsOfIn(runner.before.heartbeats, m)) + 1
        ]_vars

\* a cycle has returned a map with one monitor and without the other, which
\* was checked earlier and then paused
C12_Witness ==
    /\ last.op = "run_all_checks"
    /\ \E p, q \in DOMAIN monitors :
          /\ monitors[p].status = "paused" /\ p \notin DOMAIN last.ret
          /\ Len(HeartbeatsOfIn(heartbeats, p)) = 1
          /\ q \in DOMAIN last.ret
          /\ Len(HeartbeatsOfIn(heartbeats, q)) = 2

\* C13: while the probe of one monitor of a cycle is pending, the probe of
\* a monitor that comes later in the cycle can start.
C13_LaterProbeCanStart ==
    \A mid \in RunnerIds :
        ( /\ runner.pc = "probing"
          /\ \E k \in 2..Len(runner.queue) : runner.queue[k] = mid )
        => ENABLED RaProbeStart(mid)

\* the row, the heartbeats and the incidents of b are the same after the step
RowsKept(b) ==
    /\ monitors'[b] = monitors[b]
    /\ HeartbeatsOfIn(heartbeats', b) = HeartbeatsOfIn(heartbeats, b)
    /\ IncidentRowsOfIn(incidents', b) = IncidentRowsOfIn(incidents, b)

\* what the checks of m made one after another, with the outcomes its
\* heartbeats record, leave: the last outcome as status and one incident
\* per up -> down step
AsInSequence(m) ==
    LET st == StatusesOf(m, Len(heartbeats))
    IN  /\ monitors[m].status =
             (IF st = << >> THEN "unknown" ELSE st[Len(st)])
        /\ Cardinality(IncidentsOf(m)) = DownTransitions(st)

\* C19: the write of a run_check on monitor A leaves the row, heartbeats
\* and incidents of every other monitor B unchanged, and however the checks
\* of A and B interleave each monitor ends with the status and the incidents
\* that its own checks, run one after another, give.
C19_OtherMonitorUntouched ==
    /\ [](\A m \in DOMAIN monitors : AsInSequence(m))
    /\ [][ \A t \in Callers :
             (calls[t].pc = "ready" /\ calls'[t].pc = "done")
             => \A b \in DOMAIN monitors \ {calls[t].mid} : RowsKept(b)
         ]_vars

\* the check of m1 that opened m1's incident wrote while a check of m2
\* had its result and had not written yet
C19_Witness ==
    /\ last.op = "run_check" /\ last.mid = "m1"
    /\ last.old_status = "up" /\ last.result.status = "down"
    /\ IncidentsOf("m1") # {}
    /\ calls["t2"].pc = "ready" /\ calls["t2"].mid = "m2"
    /\ calls["t2"].result.status = "up"
    /\ monitors["m2"].status = "unknown"

====
